---- MODULE Spec2Model ----
(***************************************************************************)
(* SuShe-Processor (src/main.py): the MainWindow handlers load_json,       *)
(* the username fields, and generate_html with the pipeline it drives:     *)
(* load_and_combine_data, preprocess_data, validate_year, the year filter, *)
(* calculate_statistics, create_charts and generate_and_save_html.         *)
(*                                                                         *)
(* Strings the code takes apart or builds (file names, user names, the     *)
(* contributors column) are sequences of one-character strings.  A         *)
(* nullable value (pandas NA / NaT / NaN) is a set with at most one        *)
(* element: {} is null, {v} is the value v.                                *)
(***************************************************************************)
EXTENDS Integers, Sequences, FiniteSets, TLC

\* ------------------------------------------------------------------ bounds
\* most albums the files read by one generate_html run hold together
MaxRows == 2
\* most paths one file dialog returns
MaxSelect == 2
\* cap on len(loaded_files); the code has none
MaxLoaded == 3
\* most clicks on Generate in one session
MaxRuns == 1
\* most rows in the files load_and_combine_data is tried on in every state
ProbeRows == 2
\* most entries in username_mappings.json
MaxEntries == 2
\* most albums the files of the users A, B and C hold together
MaxCompatRows == 3
\* most genres that fill two slots of a table
MaxGenres == 11
\* most albums one user tags in the tables of two users with one genre each
MaxTags == 3

\* albums in the files that are read twice, and clicks on Generate over them
MaxRerunRows == 3

Reruns == 2

\* ------------------------------------------------------------- characters
Digits == <<"0", "1", "2", "3", "4", "5", "6", "7", "8", "9">>

DigitValue(c) == (CHOOSE i \in 1..10 : Digits[i] = c) - 1

IsDigit(c) == \E i \in 1..10 : Digits[i] = c

\* str.lower() on the characters that occur in file names
Lower(c) == IF c = "A" THEN "a" ELSE IF c = "B" THEN "b" ELSE c

LowerStr(s) == [i \in 1..Len(s) |-> Lower(s[i])]

\* str.strip(): drop leading and trailing blanks
RECURSIVE LStrip(_)
LStrip(s) == IF s # <<>> /\ Head(s) = " " THEN LStrip(Tail(s)) ELSE s

RECURSIVE RStrip(_)
RStrip(s) == IF s # <<>> /\ s[Len(s)] = " " THEN RStrip(SubSeq(s, 1, Len(s) - 1)) ELSE s

Strip(s) == RStrip(LStrip(s))

\* `sub in s` for Python strings
Contains(s, sub) ==
    \E i \in 0..(Len(s) - Len(sub)) : SubSeq(s, i + 1, i + Len(sub)) = sub

\* str(n) for an int
RECURSIVE NatToStr(_)
NatToStr(n) == IF n < 10 THEN <<Digits[n + 1]>>
               ELSE NatToStr(n \div 10) \o <<Digits[(n % 10) + 1]>>

IntToStr(n) == IF n < 0 THEN <<"-">> \o NatToStr(0 - n) ELSE NatToStr(n)

\* ------------------------------------------------------------------ state
VARIABLES
    first_run,        \* what the first click on Generate read and got sorted
    mapping_file,     \* what username_mappings.json holds
    username_map,     \* self.username_map, in dict order: <<variation, standard>>
    loaded_files,     \* self.loaded_files: [path, text] (text of the QLineEdit)
    generate_button,  \* self.generate_button.isEnabled()
    status_label,     \* self.status_label.text()
    messages,         \* titles of the message boxes of the last handler run
    pc,               \* position inside generate_html ("idle" outside it)
    df,               \* generate_html's df (mutated in place by preprocess_data)
    df_processed,     \* generate_html's df_processed
    current_year,     \* generate_html's current_year (nullable)
    stats,            \* result of calculate_statistics
    charts,           \* keys of the dict create_charts returned
    html_content,     \* what template.render returned
    output_file,      \* album_report.html on the desktop
    runs,             \* clicks on Generate so far
    crashed           \* an exception left a handler uncaught

vars == <<first_run, mapping_file, username_map, loaded_files, generate_button, status_label, messages,
          pc, df, df_processed, current_year, stats, charts, html_content,
          output_file, runs, crashed>>

pipeline == <<df, df_processed, current_year, stats, charts, html_content>>

\* --------------------------------------------------------- the GUI's input
Paths == {<<"A", "1">>, <<"b", "2">>}

\* what the user types into a username field
UsernameTexts == {<<>>, <<" ">>, <<"B">>}

\* an entry of the mapping file: an object with both keys, an object
\* without 'variations', or a value that is no object
MapEntry(standard, variations) ==
    [kind |-> "entry", standard |-> standard, variations |-> variations]

NoVariations(standard) ==
    [kind |-> "no_variations", standard |-> standard, variations |-> <<>>]

ScalarEntry == [kind |-> "scalar", standard |-> <<>>, variations |-> <<>>]

MappingList(entries) == [kind |-> "list", entries |-> entries]

\* the mapping username_mappings.json holds: variation "a" of user "A"
MappingFile == MappingList(<<MapEntry(<<"A">>, << <<"a">> >>)>>)

MappingEntries ==
    { MapEntry(<<"A">>, << <<"a">> >>),
      MapEntry(<<"B">>, << <<"B">>, <<"a">> >>),
      NoVariations(<<"C">>),
      ScalarEntry }

\* the file is absent, is no JSON, holds a non-empty object, or holds a list
MappingFiles ==
    { [kind |-> "missing", entries |-> <<>>],
      [kind |-> "invalid", entries |-> <<>>],
      [kind |-> "object", entries |-> <<>>] }
        \cup {MappingList(l) : l \in UNION {[1..n -> MappingEntries] : n \in 0..MaxEntries}}

\* self.username_map[key] = value on a dict kept in insertion order: a key
\* that is present keeps its place and takes the new value
DictSet(map, key, value) ==
    IF \E i \in 1..Len(map) : map[i][1] = key
    THEN [i \in 1..Len(map) |-> IF map[i][1] = key THEN <<key, value>> ELSE map[i]]
    ELSE Append(map, <<key, value>>)

\* the inner loop: for variation in entry['variations']
RECURSIVE variations_loop(_, _, _)
variations_loop(variations, standard, map) ==
    IF variations = <<>> THEN map
    ELSE variations_loop(Tail(variations), standard,
                         DictSet(map, LowerStr(Head(variations)), standard))

\* the outer loop: an entry without the two keys raises KeyError or
\* TypeError, which no except clause of load_username_mappings catches
RECURSIVE mappings_loop(_, _)
mappings_loop(entries, map) ==
    IF entries = <<>> THEN [map |-> map, shown |-> <<>>, crashed |-> FALSE]
    ELSE IF Head(entries).kind # "entry"
    THEN [map |-> map, shown |-> <<>>, crashed |-> TRUE]
    ELSE mappings_loop(Tail(entries),
                       variations_loop(Head(entries).variations,
                                       Head(entries).standard, map))

\* load_username_mappings on self.username_map = {}: the map it leaves,
\* the error boxes it shows, and whether an exception leaves it
read_mappings(file) ==
    IF file.kind = "missing"
    THEN [map |-> <<>>, shown |-> <<"Mapping File Not Found">>, crashed |-> FALSE]
    ELSE IF file.kind = "invalid"
    THEN [map |-> <<>>, shown |-> <<"Invalid Mapping File">>, crashed |-> FALSE]
    ELSE IF file.kind = "object"
    THEN [map |-> <<>>, shown |-> <<>>, crashed |-> TRUE]
    ELSE mappings_loop(file.entries, <<>>)

RECURSIVE extract_from(_, _)
extract_from(items, normalized_filename) ==
    IF items = <<>> THEN <<>>
    ELSE IF Contains(normalized_filename, Head(items)[1]) THEN Head(items)[2]
    ELSE extract_from(Tail(items), normalized_filename)

extract_username_from_filename(map, filename) ==
    extract_from(map, LowerStr(filename))

\* a text of the status label; n is the number an f-string puts in front
Status(text) == [n |-> 0, text |-> text]

FilesLoaded(n) == [n |-> n, text |-> "files loaded"]

\* the test of line 408 without strip(): a field of blanks counts as filled
ButtonState_untrimmed(files) ==
    IF files = <<>> THEN FALSE
    ELSE \A i \in 1..Len(files) : files[i].text # <<>>

\* the test update_generate_button_state makes
ButtonState(files) ==
    IF files = <<>> THEN FALSE
    ELSE \A i \in 1..Len(files) : Strip(files[i].text) # <<>>

StatusAfterUpdate(files, old) ==
    IF files = <<>> THEN old
    ELSE IF \E i \in 1..Len(files) : Strip(files[i].text) = <<>>
         THEN Status("Enter all usernames to generate the report")
         ELSE Status("Ready to generate report")

\* the loop without the test for a path that is already loaded
RECURSIVE load_loop_no_duplicate_test(_, _, _, _)
load_loop_no_duplicate_test(selection, readable, files, shown) ==
    IF selection = <<>> THEN [files |-> files, shown |-> shown]
    ELSE LET path == Head(selection)
             rest == Tail(selection)
         IN  IF path \notin readable
             THEN load_loop_no_duplicate_test(rest, readable, files,
                                              Append(shown, "Invalid JSON"))
             ELSE LET username == extract_username_from_filename(username_map, path)
                      entry == [path |-> path, text |-> username]
                  IN  load_loop_no_duplicate_test(rest, readable, Append(files, entry),
                          IF username = <<>>
                          THEN Append(shown, "Username Not Found")
                          ELSE shown)

\* the body of load_json's for loop, over the selected paths in order;
\* readable is the set of paths json.load accepts
RECURSIVE load_loop(_, _, _, _)
load_loop(selection, readable, files, shown) ==
    IF selection = <<>> THEN [files |-> files, shown |-> shown]
    ELSE LET path == Head(selection)
             rest == Tail(selection)
         IN  IF \E i \in 1..Len(files) : files[i].path = path
             THEN load_loop(rest, readable, files, Append(shown, "Duplicate File"))
             ELSE IF path \notin readable
             THEN load_loop(rest, readable, files, Append(shown, "Invalid JSON"))
             ELSE LET username == extract_username_from_filename(username_map, path)
                      entry == [path |-> path, text |-> username]
                  IN  load_loop(rest, readable, Append(files, entry),
                                IF username = <<>>
                                THEN Append(shown, "Username Not Found")
                                ELSE shown)

Selections == UNION {[1..n -> Paths] : n \in 0..MaxSelect}

\* MainWindow.__init__, line 60: the mapping file is read once, at startup;
\* an exception that leaves load_username_mappings leaves __init__ and main
load_username_mappings ==
    /\ pc = "construct"
    /\ LET r == read_mappings(mapping_file)
       IN  /\ username_map' = r.map
           /\ messages' = r.shown
           /\ crashed' = r.crashed
    /\ pc' = "idle"
    /\ UNCHANGED <<first_run, mapping_file, loaded_files, generate_button, status_label,
                   pipeline, output_file, runs>>

load_json ==
    /\ pc = "idle"
    /\ ~crashed
    /\ \E file_paths \in Selections, readable \in SUBSET Paths :
         IF file_paths = <<>>
         THEN /\ messages' = <<>>
              /\ UNCHANGED <<loaded_files, generate_button, status_label>>
         ELSE LET r == load_loop(file_paths, readable, loaded_files, <<>>)
              IN  /\ Len(r.files) <= MaxLoaded
                  /\ loaded_files' = r.files
                  /\ messages' = r.shown
                  /\ generate_button' = ButtonState(r.files)
                  /\ status_label' = FilesLoaded(Len(r.files))
    /\ UNCHANGED <<first_run, mapping_file, username_map, pc, pipeline, output_file, runs, crashed>>

\* the user edits the username field of one file: textChanged fires
\* update_generate_button_state
edit_username ==
    /\ pc = "idle"
    /\ ~crashed
    /\ \E i \in 1..Len(loaded_files), text \in UsernameTexts :
         /\ text # loaded_files[i].text
         /\ loaded_files' = [loaded_files EXCEPT ![i].text = text]
         /\ generate_button' = ButtonState(loaded_files')
         /\ status_label' = StatusAfterUpdate(loaded_files', status_label)
    /\ messages' = <<>>
    /\ UNCHANGED <<first_run, mapping_file, username_map, pc, pipeline, output_file, runs, crashed>>

\* ------------------------------------------------------------ JSON values
\* a JSON number or string in a rank or points field; a float is n/d
JInt(n) == [t |-> "int", n |-> n, d |-> 1, s |-> <<>>]

JFloat(n, d) == [t |-> "float", n |-> n, d |-> d, s |-> <<>>]

JStr(s) == [t |-> "str", n |-> 0, d |-> 1, s |-> s]

JNull == [t |-> "null", n |-> 0, d |-> 1, s |-> <<>>]

\* a release_date string by its layout: "dmy" is dd-mm-yyyy, "ymd" is
\* yyyy-mm-dd
JDate(fmt, d, m, y) == [fmt |-> fmt, d |-> d, m |-> m, y |-> y]

\* a cover_image: a base64 PNG of w x h pixels, a string that does not
\* decode to an image, or no key at all
Cover(t, w, h) == [t |-> t, w |-> w, h |-> h]

Submission(album, artist, country, date, rank, points, g1, g2, cover) ==
    [album |-> album, artist |-> artist, country |-> country,
     release_date |-> date, rank |-> rank, points |-> points,
     genre_1 |-> g1, genre_2 |-> g2, cover_image |-> cover]

\* the album objects the files can hold
Albums ==
    { Submission("X", "P", "NO", JDate("dmy", 1, 1, 2023), JInt(1), JInt(10),
                 {"Rock"}, {"Genre 2"}, Cover("png", 200, 100)),
      Submission("X", "P", "SE", JDate("dmy", 1, 1, 2023), JInt(2), JInt(8),
                 {"Rock"}, {}, Cover("missing", 0, 0)),
      Submission("Y", "Q", "SE", JDate("dmy", 15, 6, 2024), JInt(1), JInt(8),
                 {"Jazz"}, {"Rock"}, Cover("garbage", 0, 0)),
      Submission("Y", "Q", "SE", JDate("ymd", 1, 1, 2023), JStr(<<"x">>),
                 JStr(<<"1", "0">>), {"Genre 1"}, {}, Cover("garbage", 0, 0)),
      Submission("Y", "R", "NO", JDate("dmy", 2, 3, 2023), JInt(2), JNull,
                 {"Jazz"}, {}, Cover("png", 50, 50)),
      Submission("X", "P", "NO", JDate("dmy", 31, 2, 2023), JInt(1),
                 JFloat(15, 2), {"Rock"}, {}, Cover("missing", 0, 0)) }

\* what json.load finds in a file: a syntax error, a top level that is no
\* list, a list with an element that is no object, or a list of albums
Malformed == [kind |-> "malformed", items |-> <<>>]

TopLevelObject == [kind |-> "object", items |-> <<>>]

ListOfScalars == [kind |-> "scalars", items |-> <<>>]

AlbumLists(n) == UNION {[1..k -> Albums] : k \in 0..n}

FileContents(n) ==
    {Malformed, TopLevelObject, ListOfScalars}
        \cup {[kind |-> "list", items |-> l] : l \in AlbumLists(n)}

\* the contents of n files that hold at most budget albums together
RECURSIVE Readings(_, _)
Readings(n, budget) ==
    IF n = 0 THEN {<<>>}
    ELSE UNION { {<<c>> \o rest : rest \in Readings(n - 1, budget - Len(c.items))}
                 : c \in FileContents(budget) }

\* ---------------------------------------------------- load_and_combine_data
Returned(data, shown) == [ok |-> TRUE, data |-> data, shown |-> shown]

Failed(title) == [ok |-> FALSE, data |-> <<>>, shown |-> <<title>>]

TagUsername(items, username) ==
    [i \in 1..Len(items) |-> ("username" :> username) @@ items[i]]

\* the loop with `continue` where the code returns None for a bad file
RECURSIVE combine_loop_skipping(_, _, _, _)
combine_loop_skipping(files, contents, i, combined_data) ==
    IF i > Len(files)
    THEN IF combined_data = <<>> THEN Failed("No Data Loaded")
         ELSE Returned(combined_data, <<>>)
    ELSE LET username == Strip(files[i].text)
             data == contents[i]
         IN  IF username = <<>> THEN Failed("Input Required")
             ELSE IF data.kind # "list"
             THEN combine_loop_skipping(files, contents, i + 1, combined_data)
             ELSE combine_loop_skipping(files, contents, i + 1,
                      combined_data \o TagUsername(data.items, username))

\* the for loop over self.loaded_files, from file i on
RECURSIVE combine_loop(_, _, _, _)
combine_loop(files, contents, i, combined_data) ==
    IF i > Len(files)
    THEN IF combined_data = <<>> THEN Failed("No Data Loaded")
         ELSE Returned(combined_data, <<>>)
    ELSE LET username == Strip(files[i].text)
             data == contents[i]
         IN  IF username = <<>> THEN Failed("Input Required")
             ELSE IF data.kind # "list" THEN Failed("Data Loading Error")
             ELSE combine_loop(files, contents, i + 1,
                               combined_data \o TagUsername(data.items, username))

load_and_combine_data(files, contents) ==
    IF files = <<>> THEN Failed("No Data")
    ELSE combine_loop(files, contents, 1, <<>>)

\* -------------------------------------------------------- preprocess_data
\* fold a sequence from the left
RECURSIVE FoldSeq(_, _, _)
FoldSeq(Op(_, _), acc, s) ==
    IF s = <<>> THEN acc ELSE FoldSeq(Op, Op(acc, Head(s)), Tail(s))

SelectRows(s, Test(_)) ==
    FoldSeq(LAMBDA acc, r : IF Test(r) THEN Append(acc, r) ELSE acc, <<>>, s)

RECURSIVE ParseNat(_)
ParseNat(s) == IF s = <<>> THEN 0
               ELSE 10 * ParseNat(SubSeq(s, 1, Len(s) - 1)) + DigitValue(s[Len(s)])

IsNumericStr(s) == s # <<>> /\ \A i \in 1..Len(s) : IsDigit(s[i])

\* pd.to_numeric(errors='coerce') of one value: a number n/d or NaN
to_numeric(v) ==
    IF v.t = "int" \/ v.t = "float" THEN {[n |-> v.n, d |-> v.d]}
    ELSE IF v.t = "str" /\ IsNumericStr(v.s) THEN {[n |-> ParseNat(v.s), d |-> 1]}
    ELSE {}

\* astype(pd.Int64Dtype()) refuses a column holding a number that is no
\* integer (TypeError: cannot safely cast non-equivalent float64 to int64)
CastsToInt64(x) == \A q \in x : q.n % q.d = 0

astype_Int64(x) == {q.n \div q.d : q \in x}

IsLeap(y) == (y % 4 = 0 /\ y % 100 # 0) \/ y % 400 = 0

DaysInMonth(m, y) ==
    IF m = 2 THEN (IF IsLeap(y) THEN 29 ELSE 28)
    ELSE IF m \in {4, 6, 9, 11} THEN 30 ELSE 31

\* pd.to_datetime(format='%d-%m-%Y', errors='coerce') of one value
to_datetime(v) ==
    IF v.fmt = "dmy" /\ v.m \in 1..12 /\ v.d \in 1..DaysInMonth(v.m, v.y)
    THEN {[y |-> v.y, m |-> v.m, d |-> v.d]}
    ELSE {}

\* max_size of resize_image
ThumbSize == 100

Abs(n) == IF n < 0 THEN 0 - n ELSE n

Max2(a, b) == IF a >= b THEN a ELSE b

\* Image.thumbnail: the size that fits ThumbSize x ThumbSize and keeps the
\* aspect ratio, the nearer of floor and ceiling, never below one pixel
Thumbnail(w, h) ==
    IF ThumbSize >= w /\ ThumbSize >= h THEN <<w, h>>
    ELSE IF h >= w
    THEN LET f == (ThumbSize * w) \div h
             c == IF (ThumbSize * w) % h = 0 THEN f ELSE f + 1
             x == IF Abs(ThumbSize * w - f * h) <= Abs(ThumbSize * w - c * h)
                  THEN f ELSE c
         IN  <<Max2(x, 1), ThumbSize>>
    ELSE LET f == (ThumbSize * h) \div w
             c == IF (ThumbSize * h) % w = 0 THEN f ELSE f + 1
             y == IF f = 0 \/ Abs(w * f - ThumbSize * h) * c <= Abs(w * c - ThumbSize * h) * f
                  THEN f ELSE c
         IN  <<ThumbSize, Max2(y, 1)>>

\* resize_image: whatever fails to decode comes back as it went in
resize_image(img) ==
    IF img.t = "png"
    THEN LET size == Thumbnail(img.w, img.h) IN Cover("png", size[1], size[2])
    ELSE img

\* lines 494-502: the column conversions, in place on df (the rating and
\* comments columns dropped at lines 488-491 are not carried)
ConvertRow(r, resize) ==
    [r EXCEPT !.release_date = to_datetime(r.release_date),
              !.rank = astype_Int64(to_numeric(r.rank)),
              !.points = astype_Int64(to_numeric(r.points)),
              !.cover_image = IF resize THEN resize_image(r.cover_image)
                              ELSE r.cover_image]

ConversionRaises(raw) ==
    \E i \in 1..Len(raw) : \/ ~CastsToInt64(to_numeric(raw[i].rank))
                           \/ ~CastsToInt64(to_numeric(raw[i].points))

ConvertColumns(raw) ==
    LET has_cover == \E i \in 1..Len(raw) : raw[i].cover_image.t # "missing"
    IN  [i \in 1..Len(raw) |-> ConvertRow(raw[i], has_cover)]

SumNullable(acc, x) == IF x = {} THEN acc ELSE acc + (CHOOSE v \in x : TRUE)

\* the points of the album's first submission only
points_agg_first_only(d, album) ==
    LET i == CHOOSE k \in 1..Len(d) : d[k].album = album
                                        /\ \A j \in 1..(k - 1) : d[j].album # album
    IN  SumNullable(0, d[i].points)

\* df.groupby('album')['points'].sum(): NA is skipped
points_agg(d, album) ==
    FoldSeq(LAMBDA acc, r : IF r.album = album THEN SumNullable(acc, r.points) ELSE acc,
            0, d)

\* drop_duplicates with keep='last': the last row of every album stays, at
\* the place of the first
drop_duplicates_keep_last(d) ==
    FoldSeq(LAMBDA acc, r : IF \E i \in 1..Len(acc) : acc[i].album = r.album
                            THEN [i \in 1..Len(acc) |->
                                     IF acc[i].album = r.album THEN r ELSE acc[i]]
                            ELSE Append(acc, r),
            <<>>, d)

\* drop_duplicates(subset=['album']): the first row of every album stays
drop_duplicates(d) ==
    FoldSeq(LAMBDA acc, r : IF \E i \in 1..Len(acc) : acc[i].album = r.album
                            THEN acc ELSE Append(acc, r),
            <<>>, d)

\* the join without the test for a rank: a null rank prints as <NA>
contributors_with_null_ranks(d, album) ==
    FoldSeq(LAMBDA acc, r :
                IF r.album = album
                THEN (IF acc = <<>> THEN <<>> ELSE acc \o <<";", " ">>)
                     \o r.username \o <<" ", "(">>
                     \o (IF r.rank = {} THEN <<"<", "N", "A", ">">>
                         ELSE IntToStr(CHOOSE v \in r.rank : TRUE)) \o <<")">>
                ELSE acc,
            <<>>, d)

\* "; ".join(f"{u} ({r})" ...) over the rows of one album with a rank
contributors_of(d, album) ==
    FoldSeq(LAMBDA acc, r :
                IF r.album = album /\ r.rank # {}
                THEN (IF acc = <<>> THEN <<>> ELSE acc \o <<";", " ">>)
                     \o r.username \o <<" ", "(">>
                     \o IntToStr(CHOOSE v \in r.rank : TRUE) \o <<")">>
                ELSE acc,
            <<>>, d)

\* lines 505-515: one row per album with total_points and contributors
df_unique(d) ==
    LET firsts == drop_duplicates(d)
    IN  [i \in 1..Len(firsts) |->
            ("total_points" :> points_agg(d, firsts[i].album))
            @@ ("contributors" :> contributors_of(d, firsts[i].album))
            @@ firsts[i]]

RowOrders(n) == {p \in [1..n -> 1..n] : \A i, j \in 1..n : p[i] = p[j] => i = j}

\* sort_values(by='total_points', ascending=False) with the default kind
\* ('quicksort'), which promises no order among equal keys: every
\* arrangement in descending order is a possible outcome
sort_values(rows) ==
    {[i \in 1..Len(rows) |-> rows[p[i]]] : p \in
        {q \in RowOrders(Len(rows)) :
            \A i \in 1..(Len(rows) - 1) :
                rows[q[i]].total_points >= rows[q[i + 1]].total_points}}

\* lines 518-524: year, month and row_number
WithDateColumns(rows) ==
    [i \in 1..Len(rows) |->
        ("year" :> {t.y : t \in rows[i].release_date})
        @@ ("month" :> {t.m : t \in rows[i].release_date})
        @@ ("row_number" :> i)
        @@ rows[i]]

\* the tables preprocess_data can return for a converted df
preprocess_data(d) == {WithDateColumns(sorted) : sorted \in sort_values(df_unique(d))}

\* ----------------------------------------------------------- validate_year
\* without the test for several years: the smallest one is returned
validate_year_first_year(d) ==
    LET unique_years == UNION {d[i].year : i \in 1..Len(d)}
    IN  IF unique_years # {}
        THEN [year |-> {CHOOSE y \in unique_years : \A z \in unique_years : y <= z},
              shown |-> <<>>]
        ELSE [year |-> {}, shown |-> <<"No Valid Year">>]

\* the year, or None after one warning
validate_year(d) ==
    LET unique_years == UNION {d[i].year : i \in 1..Len(d)}
    IN  IF Cardinality(unique_years) > 1
        THEN [year |-> {}, shown |-> <<"Year Mismatch">>]
        ELSE IF Cardinality(unique_years) = 1
        THEN [year |-> unique_years, shown |-> <<>>]
        ELSE [year |-> {}, shown |-> <<"No Valid Year">>]

\* df_processed[df_processed['year'] == current_year]
filter_year(d, year) == SelectRows(d, LAMBDA r : r.year = year)

\* ---------------------------------------------------- calculate_statistics
Column(d, name) == {d[i][name] : i \in 1..Len(d)}

\* line 568: value_counts over both genre columns, one under the other; it
\* skips the nulls and nothing else
genre_counts(d) ==
    LET pooled == UNION {d[i].genre_1 \cup d[i].genre_2 : i \in 1..Len(d)}
    IN  {[genre |-> g,
          count |-> Cardinality({i \in 1..Len(d) : d[i].genre_1 = {g}})
                        + Cardinality({i \in 1..Len(d) : d[i].genre_2 = {g}})]
         : g \in pooled}

\* line 580: the genre of the first row of genre_counts. value_counts sorts
\* by count with the default kind of sort, so any genre with the highest
\* count can be the first
top_genre(d) ==
    IF genre_counts(d) = {} THEN {"N/A"}
    ELSE {r.genre : r \in {x \in genre_counts(d) :
                               \A y \in genre_counts(d) : x.count >= y.count}}

\* lines 573-574: the first index of df['country'].value_counts(), which has
\* one count per row of the table; any country with the highest count can
\* be the first
top_country(d) ==
    IF d = <<>> THEN {"N/A"}
    ELSE {c \in Column(d, "country") :
             \A o \in Column(d, "country") :
                 Cardinality({i \in 1..Len(d) : d[i].country = c})
                     >= Cardinality({i \in 1..Len(d) : d[i].country = o})}

\* the stats dict calculate_statistics can return, with the genre_counts
\* frame it returns beside it (avg_points is not carried)
calculate_statistics(d) ==
    {[total_albums |-> Len(d),
      unique_artists |-> Cardinality(Column(d, "artist")),
      countries |-> Cardinality(Column(d, "country")),
      unique_users |-> Cardinality(Column(d, "username")),
      unique_genres |-> Cardinality({r.genre : r \in genre_counts(d)}),
      top_country |-> c,
      top_genre |-> g,
      genre_counts |-> genre_counts(d)] : g \in top_genre(d), c \in top_country(d)}

\* ------------------------------------------ create_user_compatibility_table
PLACEHOLDER_GENRES == {"Genre 1", "Genre 2"}

\* the characters of user names and of the contributors column, in the
\* order of their code points: Python compares strings by code point
CodePoints == <<" ", "(", ")", "-", "0", "1", "2", "3", "4", "5", "6", "7", "8",
                "9", ";", "<", ">", "A", "B", "C", "N", "a", "b">>

Ord(c) == CHOOSE i \in 1..Len(CodePoints) : CodePoints[i] = c

\* s < t for Python strings
RECURSIVE StrLess(_, _)
StrLess(s, t) ==
    IF t = <<>> THEN FALSE
    ELSE IF s = <<>> THEN TRUE
    ELSE IF Head(s) = Head(t) THEN StrLess(Tail(s), Tail(t))
    ELSE Ord(Head(s)) < Ord(Head(t))

\* str.split(sep)
RECURSIVE Split(_, _)
Split(s, sep) ==
    IF \E i \in 0..(Len(s) - Len(sep)) : SubSeq(s, i + 1, i + Len(sep)) = sep
    THEN LET i == CHOOSE k \in 0..(Len(s) - Len(sep)) :
                      /\ SubSeq(s, k + 1, k + Len(sep)) = sep
                      /\ \A j \in 0..(k - 1) : SubSeq(s, j + 1, j + Len(sep)) # sep
         IN  <<SubSeq(s, 1, i)>> \o Split(SubSeq(s, i + Len(sep) + 1, Len(s)), sep)
    ELSE <<s>>

\* str.replace(c, '')
Remove(s, c) == SelectSeq(s, LAMBDA x : x # c)

\* int(s): the number, or nothing where int raises ValueError
ParseInt(s) ==
    IF s # <<>> /\ Head(s) \in {"-", "+"} /\ IsNumericStr(Tail(s))
    THEN {(IF Head(s) = "-" THEN 0 - ParseNat(Tail(s)) ELSE ParseNat(Tail(s)))}
    ELSE IF IsNumericStr(s) THEN {ParseNat(s)}
    ELSE {}

\* lines 781-792: the (user, rank) pairs read back from a contributors string
parse_contributors(contributors) ==
    FoldSeq(LAMBDA acc, part :
                LET parts == Split(part, <<" ", "(">>)
                IN  IF Len(parts) = 2 /\ ParseInt(Strip(Remove(parts[2], ")"))) # {}
                    THEN Append(acc, [user |-> Strip(parts[1]),
                                      rank |-> CHOOSE v \in ParseInt(Strip(Remove(parts[2], ")"))) : TRUE])
                    ELSE acc,
            <<>>, Split(contributors, <<";">>))

\* lines 773-778: the genres of a row that are set and no placeholder
row_genres(row) ==
    (IF row.genre_1 # {} /\ row.genre_1 \cap PLACEHOLDER_GENRES = {}
     THEN <<CHOOSE g \in row.genre_1 : TRUE>> ELSE <<>>)
    \o (IF row.genre_2 # {} /\ row.genre_2 \cap PLACEHOLDER_GENRES = {}
        THEN <<CHOOSE g \in row.genre_2 : TRUE>> ELSE <<>>)

\* lines 795-804: the (user, genre, rank) tuples of one row
genre_tuples_of(row) ==
    FoldSeq(LAMBDA acc, ur :
                acc \o [k \in 1..Len(row_genres(row)) |->
                           [user |-> ur.user, genre |-> row_genres(row)[k], rank |-> ur.rank]],
            <<>>, parse_contributors(row.contributors))

\* and its (user, artist) tuples
artist_tuples_of(row) ==
    LET urs == parse_contributors(row.contributors)
    IN  [k \in 1..Len(urs) |-> [user |-> urs[k].user, artist |-> row.artist]]

\* lines 807-812
user_genre_pairs(d) == FoldSeq(LAMBDA acc, row : acc \o genre_tuples_of(row), <<>>, d)

user_artist_pairs(d) == FoldSeq(LAMBDA acc, row : acc \o artist_tuples_of(row), <<>>, d)

\* genre_df['rank'].max()
max_rank(tuples) ==
    CHOOSE m \in {tuples[k].rank : k \in 1..Len(tuples)} :
        \A k \in 1..Len(tuples) : tuples[k].rank <= m

\* a weight is (max_rank - rank + 1) / max_rank: its numerator
weight_numerator(tuples, t) == max_rank(tuples) - t.rank + 1

\* line 825: the weight of a tuple as a fraction; a denominator of 0 is the
\* division by zero that pandas answers with inf
weight(tuples, t) == [num |-> weight_numerator(tuples, t), den |-> max_rank(tuples)]

\* count of genre_pivot: the tuples of a user and a genre
count(tuples, user, genre) ==
    Cardinality({k \in 1..Len(tuples) : tuples[k].user = user /\ tuples[k].genre = genre})

\* total of user_totals
total(tuples, user) == Cardinality({k \in 1..Len(tuples) : tuples[k].user = user})

\* weighted_count and weighted_total, times max_rank
weighted_count(tuples, user, genre) ==
    FoldSeq(LAMBDA acc, t : IF t.user = user /\ t.genre = genre
                            THEN acc + weight_numerator(tuples, t) ELSE acc,
            0, tuples)

weighted_total(tuples, user) ==
    FoldSeq(LAMBDA acc, t : IF t.user = user THEN acc + weight_numerator(tuples, t) ELSE acc,
            0, tuples)

\* (n / d * 100).round(1) in tenths, halves to the even neighbour
Round1(n, d) ==
    LET q == (1000 * n) \div d
        r == (1000 * n) % d
    IN  IF 2 * r < d THEN q
        ELSE IF 2 * r > d THEN q + 1
        ELSE IF q % 2 = 0 THEN q ELSE q + 1

\* 100 for a genre the user tagged at all, and 0 for the others
percentage_of_presence(tuples, user, genre) ==
    IF count(tuples, user, genre) > 0 THEN 1000 ELSE 0

percentage(tuples, user, genre) == Round1(count(tuples, user, genre), total(tuples, user))

\* the weights' common divisor max_rank cancels, unless it is 0: then every
\* weight is inf and every weighted percentage is inf / inf = NaN
weighted_percentage(tuples, user, genre) ==
    Round1(weighted_count(tuples, user, genre), weighted_total(tuples, user))

weighted_is_nan(tuples) == max_rank(tuples) = 0

\* lines 848-856: the genres that fill more than one genre slot of the table
slot_count(d, genre) ==
    Cardinality({i \in 1..Len(d) : d[i].genre_1 = {genre}})
        + Cardinality({i \in 1..Len(d) : d[i].genre_2 = {genre}})

valid_genres(d) ==
    {g \in (UNION {d[i].genre_1 \cup d[i].genre_2 : i \in 1..Len(d)}) \ PLACEHOLDER_GENRES :
        slot_count(d, g) > 1}

all_users(tuples) == {tuples[k].user : k \in 1..Len(tuples)}

all_genres(tuples) == {tuples[k].genre : k \in 1..Len(tuples)}

user_genres(tuples, user) ==
    {tuples[k].genre : k \in {j \in 1..Len(tuples) : tuples[j].user = user}}

user_avoids(d, tuples, user) == valid_genres(d) \ user_genres(tuples, user)

user_artists(artists, user) ==
    {artists[k].artist : k \in {j \in 1..Len(artists) : artists[j].user = user}}

\* sorted(...) of a set of user names
RECURSIVE sorted_users(_)
sorted_users(S) ==
    IF S = {} THEN <<>>
    ELSE LET least == CHOOSE s \in S : \A t \in S \ {s} : StrLess(s, t)
         IN  <<least>> \o sorted_users(S \ {least})

\* numbers: a percentage is held in tenths; a similarity in thousandths,
\* cut off after the third decimal; a score in units of 0.00001
SimScale == 1000

\* a * b for numbers up to 2 * 10^6, as <<high, low>> in base 10^6
Mul(a, b) ==
    LET a1 == a \div 1000
        a0 == a % 1000
        b1 == b \div 1000
        b0 == b % 1000
        m == a1 * b0 + a0 * b1
        low == (m % 1000) * 1000 + a0 * b0
    IN  <<a1 * b1 + (m \div 1000) + (low \div 1000000), low % 1000000>>

LessEq(x, y) == x[1] < y[1] \/ (x[1] = y[1] /\ x[2] <= y[2])

\* the largest r in lo..hi with r * r <= p
RECURSIVE SqrtBetween(_, _, _)
SqrtBetween(p, lo, hi) ==
    IF lo = hi THEN lo
    ELSE LET mid == (lo + hi + 1) \div 2
         IN  IF LessEq(Mul(mid, mid), p) THEN SqrtBetween(p, mid, hi)
             ELSE SqrtBetween(p, lo, mid - 1)

\* dot / (norm1 * norm2), or 0 when a norm is 0 (lines 919-921, 931-933)
Cosine(dot, sq1, sq2) ==
    IF sq1 = 0 \/ sq2 = 0 THEN 0
    ELSE LET p == Mul(sq1, sq2)
             r == SqrtBetween(p, 0, 1100000)
         IN  IF Mul(r, r) = p THEN (SimScale * dot) \div r
             ELSE (SimScale * dot) \div (r + 1)

SumOver(S, f(_)) ==
    LET RECURSIVE go(_)
        go(T) == IF T = {} THEN 0
                 ELSE LET x == CHOOSE y \in T : TRUE IN f(x) + go(T \ {x})
    IN  go(S)

\* cosine similarity of two rows of genre_pivot_table
genre_similarity(tuples, user1, user2) ==
    LET G == all_genres(tuples)
    IN  Cosine(SumOver(G, LAMBDA g : percentage(tuples, user1, g) * percentage(tuples, user2, g)),
               SumOver(G, LAMBDA g : percentage(tuples, user1, g) * percentage(tuples, user1, g)),
               SumOver(G, LAMBDA g : percentage(tuples, user2, g) * percentage(tuples, user2, g)))

\* and of two rows of weighted_pivot_table
weighted_similarity(tuples, user1, user2) ==
    LET G == all_genres(tuples)
    IN  Cosine(SumOver(G, LAMBDA g : weighted_percentage(tuples, user1, g)
                                       * weighted_percentage(tuples, user2, g)),
               SumOver(G, LAMBDA g : weighted_percentage(tuples, user1, g)
                                       * weighted_percentage(tuples, user1, g)),
               SumOver(G, LAMBDA g : weighted_percentage(tuples, user2, g)
                                       * weighted_percentage(tuples, user2, g)))

\* a quotient of two set sizes
Fraction(num, den) == [num |-> num, den |-> den]

\* the shared genres over the smaller of the two sets
absence_similarity_of_smaller(valid, u1_absences, u2_absences) ==
    IF valid # {} /\ u1_absences # {} /\ u2_absences # {}
    THEN Fraction(Cardinality(u1_absences \cap u2_absences),
                  IF Cardinality(u1_absences) <= Cardinality(u2_absences)
                  THEN Cardinality(u1_absences) ELSE Cardinality(u2_absences))
    ELSE Fraction(0, 1)

\* lines 939-944
absence_similarity(valid, u1_absences, u2_absences) ==
    IF valid # {} /\ u1_absences # {} /\ u2_absences # {}
    THEN Fraction(Cardinality(u1_absences \cap u2_absences),
                  Max2(1, Cardinality(u1_absences \cup u2_absences)))
    ELSE Fraction(0, 1)

\* the shared artists over the artists of the first user alone
artist_similarity_of_first(u1_artists, u2_artists) ==
    IF u1_artists # {} \/ u2_artists # {}
    THEN Fraction(Cardinality(u1_artists \cap u2_artists),
                  Max2(1, Cardinality(u1_artists)))
    ELSE Fraction(0, 1)

\* lines 958-961
artist_similarity(u1_artists, u2_artists) ==
    IF u1_artists # {} \/ u2_artists # {}
    THEN Fraction(Cardinality(u1_artists \cap u2_artists),
                  Max2(1, Cardinality(u1_artists \cup u2_artists)))
    ELSE Fraction(0, 1)

\* the first branch also at an absence similarity of exactly 0.1
similarity_weights_to_a_tenth(absence, artist) ==
    IF 10 * absence.num <= absence.den /\ artist.num > 0
    THEN [genre |-> 30, weighted |-> 40, absence |-> 5, artist |-> 25]
    ELSE [genre |-> 25, weighted |-> 35, absence |-> 20, artist |-> 20]

\* the second branch with a quarter for the avoided genres
similarity_weights_heavy(absence, artist) ==
    IF 10 * absence.num < absence.den /\ artist.num > 0
    THEN [genre |-> 30, weighted |-> 40, absence |-> 5, artist |-> 25]
    ELSE [genre |-> 25, weighted |-> 35, absence |-> 25, artist |-> 20]

\* lines 965-980: the weights of the four parts, in hundredths
similarity_weights(absence, artist) ==
    IF 10 * absence.num < absence.den /\ artist.num > 0
    THEN [genre |-> 30, weighted |-> 40, absence |-> 5, artist |-> 25]
    ELSE [genre |-> 25, weighted |-> 35, absence |-> 20, artist |-> 20]

Thousandths(f) == (SimScale * f.num) \div f.den

combined_similarity(genre, weighted, absence, artist) ==
    LET w == similarity_weights(absence, artist)
    IN  w.genre * genre + w.weighted * weighted
            + w.absence * Thousandths(absence) + w.artist * Thousandths(artist)

\* lines 911-1024: one element of user_pairs
user_pair(d, tuples, artists, user1, user2) ==
    LET genre == genre_similarity(tuples, user1, user2)
        weighted == weighted_similarity(tuples, user1, user2)
        absence == absence_similarity(valid_genres(d), user_avoids(d, tuples, user1),
                                      user_avoids(d, tuples, user2))
        artist == artist_similarity(user_artists(artists, user1),
                                    user_artists(artists, user2))
    IN  [user1 |-> user1, user2 |-> user2,
         combined_similarity |-> combined_similarity(genre, weighted, absence, artist),
         genre_similarity |-> genre,
         weighted_similarity |-> weighted,
         absence_similarity |-> absence,
         artist_similarity |-> artist,
         shared_avoids |-> user_avoids(d, tuples, user1) \cap user_avoids(d, tuples, user2),
         shared_artist_count |-> Cardinality(user_artists(artists, user1)
                                                \cap user_artists(artists, user2))]

\* the two loops without the test i < j
pairs_in_both_orders(d, tuples, artists) ==
    LET users == sorted_users(all_users(tuples))
    IN  FoldSeq(LAMBDA acc, i :
                    FoldSeq(LAMBDA acc2, j :
                                IF i # j
                                THEN Append(acc2, user_pair(d, tuples, artists, users[i], users[j]))
                                ELSE acc2,
                            acc, [k \in 1..Len(users) |-> k]),
                <<>>, [k \in 1..Len(users) |-> k])

\* lines 908-910: the pairs in the order of the two loops over users
pairs_in_loop_order(d, tuples, artists) ==
    LET users == sorted_users(all_users(tuples))
    IN  FoldSeq(LAMBDA acc, i :
                    FoldSeq(LAMBDA acc2, j :
                                IF i < j
                                THEN Append(acc2, user_pair(d, tuples, artists, users[i], users[j]))
                                ELSE acc2,
                            acc, [k \in 1..Len(users) |-> k]),
                <<>>, [k \in 1..Len(users) |-> k])

\* the sort key (x[2], x[0], x[1]): the lowest score first
KeyLess_ascending(p, q) ==
    \/ p.combined_similarity < q.combined_similarity
    \/ /\ p.combined_similarity = q.combined_similarity
       /\ \/ StrLess(p.user1, q.user1)
          \/ (p.user1 = q.user1 /\ StrLess(p.user2, q.user2))

\* the sort key (-x[2], x[0], x[1]) of line 1027
KeyLess(p, q) ==
    \/ p.combined_similarity > q.combined_similarity
    \/ /\ p.combined_similarity = q.combined_similarity
       /\ \/ StrLess(p.user1, q.user1)
          \/ (p.user1 = q.user1 /\ StrLess(p.user2, q.user2))

\* user_pairs.sort(key=...): list.sort is stable, and no two keys are equal
RECURSIVE sort_pairs(_)
sort_pairs(S) ==
    IF S = {} THEN <<>>
    ELSE LET first == CHOOSE p \in S : \A q \in S \ {p} : KeyLess(p, q)
         IN  <<first>> \o sort_pairs(S \ {first})

Range(s) == {s[i] : i \in 1..Len(s)}

\* lines 1048-1087: the rows of the HTML table, enumerate counting from 0
table_rows(pairs) ==
    [k \in 1..Len(pairs) |->
        LET i == k - 1
        IN  [number |-> i + 1, user1 |-> pairs[k].user1, user2 |-> pairs[k].user2,
             combined |-> pairs[k].combined_similarity]]

\* what create_user_compatibility_table does: it returns the message of
\* line 816, or the table over the sorted pairs, or raises KeyError at
\* weighted_pivot_table.loc[user1] (line 924): pivot_table drops the rows
\* whose values are all NaN, so that table is empty when max_rank is 0
create_user_compatibility_table(d) ==
    LET tuples == user_genre_pairs(d)
        artists == user_artist_pairs(d)
    IN  IF tuples = <<>>
        THEN [kind |-> "not enough genre data", user_pairs |-> <<>>, rows |-> <<>>]
        ELSE IF weighted_is_nan(tuples) /\ Cardinality(all_users(tuples)) > 1
        THEN [kind |-> "KeyError", user_pairs |-> <<>>, rows |-> <<>>]
        ELSE LET user_pairs == sort_pairs(Range(pairs_in_loop_order(d, tuples, artists)))
             IN  [kind |-> "table", user_pairs |-> user_pairs,
                  rows |-> table_rows(user_pairs)]

\* ------------------------------------------------------------ create_charts
ChartKeys == {"treemap_graph", "map_graph", "genre_graph", "user_counts_graph",
              "release_timeline_graph", "user_agreement_graph",
              "country_genre_graph", "user_genre_diversity_graph",
              "musical_compatibility_graph"}

\* count_users of create_user_agreement_chart: len(contributors.split(';'))
count_users(contributors_str) ==
    1 + Cardinality({i \in 1..Len(contributors_str) : contributors_str[i] = ";"})

\* create_user_agreement_chart writes the user_count column into df
WithUserCount(d) ==
    [i \in 1..Len(d) |-> ("user_count" :> count_users(d[i].contributors)) @@ d[i]]

\* ------------------------------------------------------------ generate_html
NoLocals ==
    /\ df' = <<>>
    /\ df_processed' = <<>>
    /\ current_year' = {}
    /\ stats' = {}
    /\ charts' = {}
    /\ html_content' = {}

\* the except clause of generate_html (lines 1417-1421)
generate_html_except(shown) ==
    [status |-> Status("Error!"), shown |-> Append(shown, "Error"),
     crashed |-> FALSE]

\* the except clause showing its error and raising again, so that the
\* except clause of generate_html shows a second one
save_html_except_reraising(shown) ==
    [status |-> Status("Error!"),
     shown |-> Append(Append(shown, "HTML Generation Error"), "Error"),
     crashed |-> FALSE]

\* the except clause of generate_and_save_html (lines 1379-1382)
save_html_except(shown) ==
    [status |-> Status("Error generating report!"),
     shown |-> Append(shown, "HTML Generation Error"), crashed |-> FALSE]

Raise(handler) ==
    /\ status_label' = handler.status
    /\ messages' = handler.shown
    /\ crashed' = handler.crashed
    /\ pc' = "idle"
    /\ NoLocals

\* lines 1389-1395: the click on Generate and load_and_combine_data
start_generate ==
    /\ pc = "idle"
    /\ generate_button
    /\ ~crashed
    /\ runs < MaxRuns
    /\ runs' = runs + 1
    /\ \E contents \in Readings(Len(loaded_files), MaxRows) :
         LET r == load_and_combine_data(loaded_files, contents)
         IN  /\ messages' = r.shown
             /\ IF r.ok
                THEN /\ pc' = "preprocess"
                     /\ df' = r.data
                     /\ UNCHANGED <<df_processed, current_year, stats, charts,
                                    html_content>>
                ELSE /\ pc' = "idle"
                     /\ NoLocals
    /\ status_label' = Status("Processing data...")
    /\ UNCHANGED <<first_run, mapping_file, username_map, loaded_files, generate_button, output_file, crashed>>

\* line 1398
preprocess ==
    /\ pc = "preprocess"
    /\ IF ConversionRaises(df)
       THEN Raise(generate_html_except(messages))
       ELSE /\ df' = ConvertColumns(df)
            /\ df_processed' \in preprocess_data(df')
            /\ pc' = "validate"
            /\ UNCHANGED <<status_label, messages, crashed, current_year, stats,
                           charts, html_content>>
    /\ UNCHANGED <<first_run, mapping_file, username_map, loaded_files, generate_button, output_file, runs>>

\* lines 1401-1406
year_gate ==
    /\ pc = "validate"
    /\ LET v == validate_year(df_processed)
       IN  IF v.year = {}
           THEN /\ messages' = messages \o v.shown
                /\ pc' = "idle"
                /\ NoLocals
           ELSE /\ current_year' = v.year
                /\ df_processed' = filter_year(df_processed, v.year)
                /\ pc' = "statistics"
                /\ UNCHANGED <<messages, df, stats, charts, html_content>>
    /\ UNCHANGED <<first_run, mapping_file, username_map, loaded_files, generate_button, status_label,
                   output_file, runs, crashed>>

\* line 1409
statistics ==
    /\ pc = "statistics"
    /\ \E s \in calculate_statistics(df_processed) : stats' = {s}
    /\ pc' = "charts"
    /\ UNCHANGED <<first_run, mapping_file, username_map, loaded_files, generate_button, status_label,
                   messages, df, df_processed, current_year, charts,
                   html_content, output_file, runs, crashed>>

\* line 1412: the charts in the order of the dict of lines 1310-1327; an
\* exception of the last one reaches the except clause of generate_html
create_charts ==
    /\ pc = "charts"
    /\ LET table == create_user_compatibility_table(WithUserCount(df_processed))
       IN  IF table.kind = "KeyError"
           THEN Raise(generate_html_except(messages))
           ELSE /\ status_label' = Status("Creating visualizations...")
                /\ df_processed' = WithUserCount(df_processed)
                /\ charts' = {[graphs |-> ChartKeys,
                               musical_compatibility_graph |-> table]}
                /\ pc' = "render"
                /\ UNCHANGED <<messages, df, current_year, stats, html_content, crashed>>
    /\ UNCHANGED <<first_run, mapping_file, username_map, loaded_files, generate_button,
                   output_file, runs>>

\* generate_and_save_html, lines 1344-1366: the template is found and
\* renders, or an exception reaches the except clause
render ==
    /\ pc = "render"
    /\ \E found \in BOOLEAN :
         IF found
         THEN /\ html_content' = {[albums |-> [i \in 1..Len(df_processed) |->
                                                   df_processed[i].album],
                                    current_year |-> current_year]}
              /\ status_label' = Status("Generating HTML report...")
              /\ pc' = "open"
              /\ UNCHANGED <<messages, crashed, df, df_processed, current_year,
                             stats, charts>>
         ELSE Raise(save_html_except(messages))
    /\ UNCHANGED <<first_run, mapping_file, username_map, loaded_files, generate_button, output_file, runs>>

\* line 1371: open(output_path, 'w') truncates the file, or fails
open_output ==
    /\ pc = "open"
    /\ \E writable \in BOOLEAN :
         IF writable
         THEN /\ output_file' = "partial"
              /\ pc' = "write"
              /\ UNCHANGED <<status_label, messages, crashed, pipeline>>
         ELSE /\ Raise(save_html_except(messages))
              /\ UNCHANGED output_file
    /\ UNCHANGED <<first_run, mapping_file, username_map, loaded_files, generate_button, runs>>

\* lines 1372-1378: f.write and the close of the with block, then the
\* browser; a write that fails leaves what was written so far
write_output ==
    /\ pc = "write"
    /\ \E written \in BOOLEAN :
         IF written
         THEN /\ output_file' = "complete"
              /\ status_label' = Status("Report generated successfully!")
              /\ pc' = "idle"
              /\ NoLocals
              /\ UNCHANGED <<messages, crashed>>
         ELSE /\ Raise(save_html_except(messages))
              /\ UNCHANGED output_file
    /\ UNCHANGED <<first_run, mapping_file, username_map, loaded_files, generate_button, runs>>

\* ------------------------------------------------------------------- spec
Init ==
    /\ first_run = {}
    /\ mapping_file = MappingFile
    /\ username_map = read_mappings(MappingFile).map
    /\ loaded_files = <<>>
    /\ generate_button = FALSE
    /\ status_label = Status("Ready to process files")
    /\ messages = <<>>
    /\ pc = "idle"
    /\ df = <<>>
    /\ df_processed = <<>>
    /\ current_year = {}
    /\ stats = {}
    /\ charts = {}
    /\ html_content = {}
    /\ output_file = "absent"
    /\ runs = 0
    /\ crashed = FALSE

Next ==
    \/ load_json
    \/ edit_username
    \/ start_generate
    \/ preprocess
    \/ year_gate
    \/ statistics
    \/ create_charts
    \/ render
    \/ open_output
    \/ write_output

Spec == Init /\ [][Next]_vars

\* the start of the program, before MainWindow.__init__ reads the mapping
\* file, and the file dialog and username fields after it
InitMap ==
    /\ first_run = {}
    /\ mapping_file \in MappingFiles
    /\ username_map = <<>>
    /\ loaded_files = <<>>
    /\ generate_button = FALSE
    /\ status_label = Status("Ready to process files")
    /\ messages = <<>>
    /\ pc = "construct"
    /\ df = <<>>
    /\ df_processed = <<>>
    /\ current_year = {}
    /\ stats = {}
    /\ charts = {}
    /\ html_content = {}
    /\ output_file = "absent"
    /\ runs = 0
    /\ crashed = FALSE

NextMap ==
    \/ load_username_mappings
    \/ load_json
    \/ edit_username

MapSpec == InitMap /\ [][NextMap]_vars

\* ------------------------------------------- the table handed to the charts
\* the albums of the second session: title, artist, genres, points of one
\* submission (the totals of two albums never tie)
CompatAlbum(title) ==
    IF title = "X" THEN [artist |-> "P", country |-> "NO", g1 |-> {"Rock"}, g2 |-> {"Jazz"}, points |-> 1000]
    ELSE IF title = "Y" THEN [artist |-> "Q", country |-> "SE", g1 |-> {"Rock"}, g2 |-> {}, points |-> 100]
    ELSE IF title = "Z" THEN [artist |-> "P", country |-> "SE", g1 |-> {"Jazz"}, g2 |-> {"Jazz"}, points |-> 10]
    ELSE [artist |-> "Q", country |-> "NO", g1 |-> {"Genre 1"}, g2 |-> {}, points |-> 1]

\* one album object of user's file, with the username load_and_combine_data
\* adds
CompatRow(user, title, rank) ==
    ("username" :> user)
    @@ Submission(title, CompatAlbum(title).artist, CompatAlbum(title).country,
                  JDate("dmy", 1, 1, 2023), rank, JInt(CompatAlbum(title).points),
                  CompatAlbum(title).g1, CompatAlbum(title).g2, Cover("missing", 0, 0))

\* the rows three files can hold, in the order of the files
CompatRows ==
    << CompatRow(<<"A">>, "X", JInt(1)),
       CompatRow(<<"A">>, "Z", JInt(2)),
       CompatRow(<<"A">>, "W", JInt(1)),
       CompatRow(<<"A">>, "X", JInt(0)),
       CompatRow(<<"B">>, "X", JInt(2)),
       CompatRow(<<"B">>, "Y", JInt(1)),
       CompatRow(<<"B">>, "X", JInt(0)),
       CompatRow(<<"B">>, "Z", JNull),
       CompatRow(<<"C">>, "Y", JInt(2)),
       CompatRow(<<"C">>, "Z", JInt(1)),
       CompatRow(<<"C">>, "W", JInt(2)),
       CompatRow(<<"C">>, "W", JInt(3)) >>

\* what load_and_combine_data returns for files of A, B and C, in this
\* order, that hold at most n albums together
CompatInputs(n) ==
    UNION {{[i \in 1..k |-> CompatRows[f[i]]] :
              f \in {g \in [1..k -> 1..Len(CompatRows)] :
                        \A i \in 1..(k - 1) : g[i] <= g[i + 1]}}
           : k \in 1..n}

\* the files behind a table: one per user, in the order of the rows
RECURSIVE FilesOf(_)
FilesOf(raw) ==
    IF raw = <<>> THEN <<>>
    ELSE LET rest == FilesOf(Tail(raw))
             user == Head(raw).username
         IN  <<[path |-> user \o <<"1">>, text |-> user]>>
                 \o SelectSeq(rest, LAMBDA e : e.text # user)

\* the tables generate_html hands on after validate_year and the filter
HandedTables(raw) ==
    {filter_year(t, validate_year(t).year) :
        t \in {u \in preprocess_data(ConvertColumns(raw)) : validate_year(u).year # {}}}

\* genres and album titles for tables with many genres
GenreNames == <<"G01", "G02", "G03", "G04", "G05", "G06", "G07", "G08", "G09",
                "G10", "G11", "G12", "G13">>

AlbumNames == <<"T01", "T02", "T03", "T04", "T05", "T06", "T07", "T08", "T09",
                "T10", "T11", "T12", "T13", "T14", "T15", "T16", "T17", "T18",
                "T19", "T20", "T21", "T22", "T23", "T24", "T25", "T26", "T27",
                "T28">>

Tagged(user, artist, g1, g2) == [user |-> user, artist |-> artist, g1 |-> g1, g2 |-> g2]

\* files of A, B and C over n genres that each fill two slots of C's
\* albums: A tags all of them but the first a, B the first a - k only, so
\* that A avoids a genres, B avoids n - a + k and both avoid k; every album
\* has one submission, and the points fall from row to row. C's last album
\* carries the first genre twice, which makes it the most frequent one
AvoidInput(n, a, k, shared) ==
    LET rowsA == <<Tagged(<<"A">>, "P", {"Rock"}, {})>>
                     \o [i \in 1..(n - a) |-> Tagged(<<"A">>, "P", {GenreNames[a + i]}, {})]
        rowsB == <<Tagged(<<"B">>, IF shared THEN "P" ELSE "Q", {"Jazz"}, {})>>
                     \o [i \in 1..(a - k) |->
                            Tagged(<<"B">>, IF shared THEN "P" ELSE "Q", {GenreNames[i]}, {})]
        rowsC == [i \in 1..n |-> Tagged(<<"C">>, "R", {GenreNames[i]},
                                        {GenreNames[(i % n) + 1]})]
                     \o <<Tagged(<<"C">>, "R", {GenreNames[1]}, {GenreNames[1]})>>
        rows == rowsA \o rowsB \o rowsC
    IN  [i \in 1..Len(rows) |->
            ("username" :> rows[i].user)
            @@ Submission(AlbumNames[i], rows[i].artist, "NO", JDate("dmy", 1, 1, 2023),
                          JInt(1), JInt(100 - i), rows[i].g1, rows[i].g2,
                          Cover("missing", 0, 0))]

\* files of A and B with albums of their own that carry one genre each: A
\* has na albums, the first a of them Rock and the others Jazz, B has nb
\* albums, the first b of them Rock; every user ranks the albums 1, 2, ...
\* and the points fall from row to row
TagInput(na, a, nb, b) ==
    LET rows == [i \in 1..na |-> Tagged(<<"A">>, "P", {IF i <= a THEN "Rock" ELSE "Jazz"}, {})]
                \o [i \in 1..nb |-> Tagged(<<"B">>, "Q", {IF i <= b THEN "Rock" ELSE "Jazz"}, {})]
    IN  [i \in 1..Len(rows) |->
            ("username" :> rows[i].user)
            @@ Submission(AlbumNames[i], rows[i].artist, "NO", JDate("dmy", 1, 1, 2023),
                          JInt(IF i <= na THEN i ELSE i - na), JInt(100 - i),
                          rows[i].g1, rows[i].g2,
                          Cover("missing", 0, 0))]

TagInputs ==
    {TagInput(p[1], p[2], p[3], p[4]) :
        p \in {q \in (1..MaxTags) \X (0..MaxTags) \X (1..MaxTags) \X (0..MaxTags) :
                  q[2] <= q[1] /\ q[4] <= q[3]}}

AvoidInputs ==
    {AvoidInput(p[1], p[2], p[3], p[4]) :
        p \in {q \in ((MaxGenres - 2)..MaxGenres) \X (1..MaxGenres) \X {0, 1} \X BOOLEAN :
                  q[2] >= q[3] /\ q[2] <= q[1] - 1 + q[3]}}

\* generate_html after the year filter of line 1406, for the files of three
\* users: small tables with every order sort_values can leave, and the
\* tables with many genres or many tags, whose rows are in descending order
\* as they come
InitCompat ==
    /\ first_run = {}
    /\ mapping_file = MappingFile
    /\ username_map = read_mappings(MappingFile).map
    /\ generate_button = TRUE
    /\ status_label = Status("Processing data...")
    /\ messages = <<>>
    /\ pc = "statistics"
    /\ current_year = {2023}
    /\ stats = {}
    /\ charts = {}
    /\ html_content = {}
    /\ output_file = "absent"
    /\ runs = 1
    /\ crashed = FALSE
    /\ \/ \E raw \in CompatInputs(MaxCompatRows) :
            /\ loaded_files = FilesOf(raw)
            /\ df = ConvertColumns(raw)
            /\ df_processed \in HandedTables(raw)
       \/ \E raw \in AvoidInputs \cup TagInputs :
            /\ loaded_files = FilesOf(raw)
            /\ df = ConvertColumns(raw)
            /\ df_processed = filter_year(WithDateColumns(df_unique(df)), current_year)

NextCompat ==
    \/ statistics
    \/ create_charts

CompatSpec == InitCompat /\ [][NextCompat]_vars

\* ------------------------------------------- usernames with separators
MaxNameRows == 2

\* what the user can leave in a username field: a plain name, and names
\* with the separators of the contributors column in them
NameTexts == << <<"A">>, <<"A", ";", "B">>, <<"A", " ", "(", "B">>, <<"B">> >>

\* the album objects of the files of these users, in the order of the files
NameRows ==
    [k \in 1..(4 * Len(NameTexts)) |->
        CompatRow(NameTexts[((k - 1) \div 4) + 1],
                  IF ((k - 1) \div 2) % 2 = 0 THEN "X" ELSE "Y",
                  IF (k - 1) % 2 = 0 THEN JInt(1) ELSE JNull)]

NameInputs ==
    UNION {{[i \in 1..k |-> NameRows[f[i]]] :
              f \in {g \in [1..k -> 1..Len(NameRows)] :
                        \A i \in 1..(k - 1) : g[i] <= g[i + 1]}}
           : k \in 1..MaxNameRows}

\* generate_html after the year filter of line 1406, for the files of users
\* with these names
InitNames ==
    /\ first_run = {}
    /\ mapping_file = MappingFile
    /\ username_map = read_mappings(MappingFile).map
    /\ generate_button = TRUE
    /\ status_label = Status("Processing data...")
    /\ messages = <<>>
    /\ pc = "statistics"
    /\ current_year = {2023}
    /\ stats = {}
    /\ charts = {}
    /\ html_content = {}
    /\ output_file = "absent"
    /\ runs = 1
    /\ crashed = FALSE
    /\ \E raw \in NameInputs :
         /\ loaded_files = FilesOf(raw)
         /\ df = ConvertColumns(raw)
         /\ df_processed \in HandedTables(raw)

NameSpec == InitNames /\ [][NextCompat]_vars

\* ------------------------------------------------- two clicks on Generate
\* the album objects of the files that are read twice: X and Y bring the
\* same points, the date of Z does not parse, and neither does the date
\* one of the two objects for X carries
RerunAlbums ==
    { Submission("X", "P", "NO", JDate("dmy", 1, 1, 2023), JInt(1), JInt(5),
                 {"Rock"}, {"Jazz"}, Cover("missing", 0, 0)),
      Submission("X", "P", "NO", JDate("ymd", 1, 1, 2023), JInt(2), JInt(5),
                 {"Rock"}, {"Jazz"}, Cover("missing", 0, 0)),
      Submission("Y", "Q", "SE", JDate("dmy", 2, 3, 2023), JInt(2), JInt(5),
                 {"Rock"}, {}, Cover("missing", 0, 0)),
      Submission("Z", "P", "NO", JDate("ymd", 1, 1, 2023), JInt(1), JInt(5),
                 {"Jazz"}, {}, Cover("missing", 0, 0)) }

\* the contents of n files that hold at most budget of these albums
\* together, or do not parse
RECURSIVE RerunReadings(_, _)
RerunReadings(n, budget) ==
    IF n = 0 THEN {<<>>}
    ELSE UNION { {<<c>> \o rest : rest \in RerunReadings(n - 1, budget - Len(c.items))}
                 : c \in {Malformed} \cup
                         {[kind |-> "list", items |-> l] :
                             l \in UNION {[1..k -> RerunAlbums] : k \in 0..budget}} }

\* open() and json.load() of lines 459-460: the files are as the first
\* click found them
files_on_disk(n) ==
    IF first_run = {} THEN RerunReadings(n, MaxRerunRows)
    ELSE {f.contents : f \in first_run}

\* a sort that draws its pivots at random: any descending arrangement,
\* whatever it returned before
sort_values_at_random(rows, before) == sort_values(rows)

\* sort_values of line 516 in one process: numpy's argsort is a function of
\* the keys, so a table it has sorted before comes back in the arrangement
\* it had then
sort_values_again(rows, before) ==
    {s \in sort_values(rows) : \A b \in before : b.rows = rows => s = b.sorted}

\* lines 1389-1395 for the clicks on Generate that follow each other over
\* the same files and usernames
generate_again ==
    /\ pc = "idle"
    /\ generate_button
    /\ ~crashed
    /\ runs < Reruns
    /\ runs' = runs + 1
    /\ \E contents \in files_on_disk(Len(loaded_files)) :
         LET r == load_and_combine_data(loaded_files, contents)
         IN  /\ messages' = r.shown
             /\ first_run' = IF first_run = {}
                             THEN {[contents |-> contents, argsort |-> {},
                                    df_processed |-> {}, charts |-> {}]}
                             ELSE first_run
             /\ IF r.ok
                THEN /\ pc' = "preprocess"
                     /\ df' = r.data
                     /\ UNCHANGED <<df_processed, current_year, stats, charts,
                                    html_content>>
                ELSE /\ pc' = "idle"
                     /\ NoLocals
    /\ status_label' = Status("Processing data...")
    /\ UNCHANGED <<mapping_file, username_map, loaded_files, generate_button,
                   output_file, crashed>>

\* line 1398 in these runs
preprocess_again ==
    /\ pc = "preprocess"
    /\ IF ConversionRaises(df)
       THEN /\ Raise(generate_html_except(messages))
            /\ UNCHANGED first_run
       ELSE /\ df' = ConvertColumns(df)
            /\ \E sorted \in sort_values_again(df_unique(df'),
                                               UNION {f.argsort : f \in first_run}) :
                 /\ df_processed' = WithDateColumns(sorted)
                 /\ first_run' = {[f EXCEPT !.argsort =
                                      @ \cup {[rows |-> df_unique(df'), sorted |-> sorted]}]
                                  : f \in first_run}
            /\ pc' = "validate"
            /\ UNCHANGED <<status_label, messages, crashed, current_year, stats,
                           charts, html_content>>
    /\ UNCHANGED <<mapping_file, username_map, loaded_files, generate_button,
                   output_file, runs>>

\* line 1415 as one step: generate_and_save_html writes the report or shows
\* its error, and generate_html returns; what the first run handed to it is
\* kept for the comparison
save_again ==
    /\ pc = "render"
    /\ first_run' = IF runs = 1
                    THEN {[f EXCEPT !.df_processed = {df_processed}, !.charts = charts]
                          : f \in first_run}
                    ELSE first_run
    /\ \E saved \in BOOLEAN :
         IF saved
         THEN /\ output_file' = "complete"
              /\ status_label' = Status("Report generated successfully!")
              /\ pc' = "idle"
              /\ NoLocals
              /\ UNCHANGED <<messages, crashed>>
         ELSE /\ Raise(save_html_except(messages))
              /\ output_file' \in {output_file, "partial"}
    /\ UNCHANGED <<mapping_file, username_map, loaded_files, generate_button, runs>>

\* the window with the files of A and B loaded and both usernames filled in
InitRerun ==
    /\ first_run = {}
    /\ mapping_file = MappingFile
    /\ username_map = read_mappings(MappingFile).map
    /\ loaded_files = <<[path |-> <<"A", "1">>, text |-> <<"A">>],
                        [path |-> <<"B", "1">>, text |-> <<"B">>]>>
    /\ generate_button = TRUE
    /\ status_label = Status("Ready to generate report")
    /\ messages = <<>>
    /\ pc = "idle"
    /\ df = <<>>
    /\ df_processed = <<>>
    /\ current_year = {}
    /\ stats = {}
    /\ charts = {}
    /\ html_content = {}
    /\ output_file = "absent"
    /\ runs = 0
    /\ crashed = FALSE

NextRerun ==
    \/ generate_again
    \/ preprocess_again
    \/ year_gate
    \/ statistics
    \/ create_charts
    \/ save_again

RerunSpec == InitRerun /\ [][NextRerun]_vars

\* ------------------------------------------------------------ properties
\* the state right after preprocess_data returned: df holds the converted
\* submissions, df_processed the table it returned
Preprocessed == pc = "validate"

\* the table is the one handed to statistics, charts and the report
Handed == pc \in {"statistics", "charts", "render", "open", "write"}

SubmissionsOf(album) == {i \in 1..Len(df) : df[i].album = album}

FirstSubmission(album) ==
    CHOOSE i \in SubmissionsOf(album) : \A j \in SubmissionsOf(album) : i <= j

PointsOrZero(i) == IF df[i].points = {} THEN 0 ELSE CHOOSE v \in df[i].points : TRUE

RECURSIVE SumPoints(_)
SumPoints(S) == IF S = {} THEN 0
                ELSE LET i == CHOOSE k \in S : TRUE
                     IN  PointsOrZero(i) + SumPoints(S \ {i})

RowsOf(album) == {j \in 1..Len(df_processed) : df_processed[j].album = album}

\* C1: after preprocess_data every album of the merged submissions has
\* exactly one row, whose total_points is the sum of the points of all its
\* submissions, a null counting as 0
C1_OneRowWithTotal ==
    Preprocessed =>
        \A i \in 1..Len(df) :
            /\ Cardinality(RowsOf(df[i].album)) = 1
            /\ \A j \in RowsOf(df[i].album) :
                 df_processed[j].total_points = SumPoints(SubmissionsOf(df[i].album))

C1_Witness ==
    /\ Preprocessed
    /\ \E i, j \in 1..Len(df) :
         /\ i # j
         /\ df[i].album = df[j].album
         /\ df[i].points = {}
         /\ df[j].points # {}
         /\ df[i].username # df[j].username

\* the submissions of an album that carry a rank, in concatenation order
RECURSIVE RankedFrom(_, _)
RankedFrom(album, i) ==
    IF i > Len(df) THEN <<>>
    ELSE IF df[i].album = album /\ df[i].rank # {}
         THEN <<i>> \o RankedFrom(album, i + 1)
         ELSE RankedFrom(album, i + 1)

EntryOf(i) ==
    df[i].username \o <<" ", "(">> \o IntToStr(CHOOSE v \in df[i].rank : TRUE) \o <<")">>

RECURSIVE JoinEntries(_)
JoinEntries(idx) ==
    IF idx = <<>> THEN <<>>
    ELSE IF Len(idx) = 1 THEN EntryOf(idx[1])
    ELSE EntryOf(idx[1]) \o <<";", " ">> \o JoinEntries(Tail(idx))

\* user A: album X at rank 1 with 10 points; user B: X at rank 2 with 8 points
TwoUsersOneAlbum ==
    /\ Len(df) = 2
    /\ df[1].album = "X" /\ df[2].album = "X"
    /\ df[1].username = <<"A">> /\ df[1].rank = {1} /\ df[1].points = {10}
    /\ df[2].username = <<"B">> /\ df[2].rank = {2} /\ df[2].points = {8}

\* C2: contributors joins "{username} ({rank})" with "; " over the
\* submissions of the album that have a rank, in concatenation order; A at
\* rank 1 with 10 points and B at rank 2 with 8 points give one row with
\* total_points 18, contributors "A (1); B (2)" and row_number 1
C2_Contributors ==
    Preprocessed =>
        /\ \A j \in 1..Len(df_processed) :
             df_processed[j].contributors
                 = JoinEntries(RankedFrom(df_processed[j].album, 1))
        /\ TwoUsersOneAlbum =>
             /\ Len(df_processed) = 1
             /\ df_processed[1].total_points = 18
             /\ df_processed[1].contributors
                  = <<"A", " ", "(", "1", ")", ";", " ", "B", " ", "(", "2", ")">>
             /\ df_processed[1].row_number = 1

C2_Witness == Preprocessed /\ TwoUsersOneAlbum

\* C3: in the table handed to statistics, charts and the report,
\* total_points never increases down the rows and the row at position i
\* (from 1) has row_number i
C3_SortedAndNumbered ==
    Handed =>
        /\ \A i, j \in 1..Len(df_processed) :
             i < j => df_processed[i].total_points >= df_processed[j].total_points
        /\ \A i \in 1..Len(df_processed) : df_processed[i].row_number = i

\* C4: the sort by total_points is stable: albums with equal total_points
\* keep the order of their first submissions
C4_StableSort ==
    Preprocessed =>
        \A i, j \in 1..Len(df_processed) :
            (i < j /\ df_processed[i].total_points = df_processed[j].total_points)
                => FirstSubmission(df_processed[i].album)
                       < FirstSubmission(df_processed[j].album)

\* the years of the rows preprocess_data keeps: each album's first submission
YearsOfAlbums ==
    UNION {{t.y : t \in df[FirstSubmission(df[i].album)].release_date}
           : i \in 1..Len(df)}

AlbumsOfYear(years) ==
    {df[i].album : i \in {k \in 1..Len(df) :
        {t.y : t \in df[FirstSubmission(df[k].album)].release_date} = years}}

\* C5: the pipeline goes past validate_year only when the albums carry
\* exactly one year, and then with the table filtered to that year; with
\* several years or none generate_html returns after one warning, with no
\* statistics, charts or output file
C5_YearGate ==
    /\ [](Handed =>
            /\ Cardinality(YearsOfAlbums) = 1
            /\ current_year = YearsOfAlbums
            /\ \A j \in 1..Len(df_processed) : df_processed[j].year = current_year
            /\ {df_processed[j].album : j \in 1..Len(df_processed)}
                 = AlbumsOfYear(current_year))
    /\ [][(pc = "validate" /\ Cardinality(YearsOfAlbums) # 1) =>
            /\ pc' = "idle"
            /\ messages' = Append(messages,
                                  IF YearsOfAlbums = {} THEN "No Valid Year"
                                  ELSE "Year Mismatch")
            /\ stats' = {} /\ charts' = {} /\ html_content' = {}
            /\ output_file' = output_file]_vars

C5_Witness ==
    /\ pc = "idle"
    /\ messages = <<"Year Mismatch">>
    /\ output_file = "absent"
    /\ runs = 1

\* what load_and_combine_data has to return for these files
Acceptable(files, contents) ==
    /\ files # <<>>
    /\ \A i \in 1..Len(files) :
         /\ Strip(files[i].text) # <<>>
         /\ contents[i].kind = "list"
    /\ \E i \in 1..Len(files) : contents[i].items # <<>>

\* C6: load_and_combine_data returns a table only if every file has a
\* username and holds a list of objects and there is at least one record;
\* otherwise it returns nothing and generate_html ends with nothing
\* preprocessed or written
C6_AllOrNothing ==
    /\ []((pc = "idle" /\ runs = 0) =>
            \A contents \in Readings(Len(loaded_files), ProbeRows) :
                LET r == load_and_combine_data(loaded_files, contents)
                IN  /\ r.ok <=> Acceptable(loaded_files, contents)
                    /\ ~r.ok => r.data = <<>> /\ Len(r.shown) = 1)
    /\ [](pc = "preprocess" =>
            /\ df # <<>>
            /\ \A i \in 1..Len(df) :
                 \E k \in 1..Len(loaded_files) :
                     df[i].username = Strip(loaded_files[k].text))
    /\ [][(pc = "idle" /\ runs' = runs + 1 /\ pc' = "idle") =>
            /\ df' = <<>> /\ df_processed' = <<>>
            /\ output_file' = output_file]_vars

C6_Witness ==
    /\ pc = "idle"
    /\ runs = 1
    /\ messages = <<"Data Loading Error">>
    /\ Len(loaded_files) = 2
    /\ df = <<>>
    /\ output_file = "absent"

\* C7: loaded_files never holds a path twice
C7_NoDuplicatePaths ==
    \A i, j \in 1..Len(loaded_files) :
        loaded_files[i].path = loaded_files[j].path => i = j

C7_Witness ==
    /\ Len(loaded_files) = 2
    /\ messages = <<"Duplicate File", "Duplicate File">>

\* C8: the output file is opened only after everything before it
\* succeeded, and a run that ends in a fatal condition never leaves the
\* output file partially written
C8_NoPartialOutput ==
    /\ pc = "write" => (stats # {} /\ charts # {} /\ html_content # {})
    /\ pc = "idle" => output_file # "partial"

\* a generate_html run returns in this step
RunEnds == pc' = "idle" /\ (pc # "idle" \/ runs' = runs + 1)

\* C9: a generate_html run that hits a fatal condition shows exactly one
\* message box and returns; no exception escapes
C9_OneNotification ==
    [][RunEnds =>
         /\ ~crashed'
         /\ IF output_file' = "complete" /\ pc = "write"
            THEN messages' = <<>>
            ELSE Len(messages') = 1]_vars

C9_Witness ==
    /\ pc = "idle"
    /\ runs = 1
    /\ messages = <<"Error">>
    /\ ~crashed

\* C10: no defect of the data aborts preprocess_data: a rank or points
\* value that is no integer becomes null and preprocess_data returns a
\* table that holds every album
C10_NeverAborts ==
    [][pc = "preprocess" =>
         /\ pc' = "validate"
         /\ {df_processed'[j].album : j \in 1..Len(df_processed')}
              = {df[i].album : i \in 1..Len(df)}]_vars

\* the mapping file is absent, is no JSON, or has an entry that is no
\* object with 'standard' and 'variations'
FailedLoad(file) ==
    \/ file.kind # "list"
    \/ \E i \in 1..Len(file.entries) : file.entries[i].kind # "entry"

\* C11: when the mapping file is missing or malformed in any way,
\* load_username_mappings ends with an empty username_map and the
\* application goes on; never with a partly filled map
C11_FailedLoadEmptyMap ==
    (pc = "idle" /\ FailedLoad(mapping_file)) => (username_map = <<>> /\ ~crashed)

\* the standard of the first variation, in the order of the file's entries
\* and of the variations within an entry, that occurs in the file name
RECURSIVE FirstVariation(_, _, _)
FirstVariation(variations, standard, name) ==
    IF variations = <<>> THEN <<>>
    ELSE IF Contains(name, LowerStr(Head(variations))) THEN standard
    ELSE FirstVariation(Tail(variations), standard, name)

RECURSIVE FirstOwner(_, _)
FirstOwner(entries, name) ==
    IF entries = <<>> THEN <<>>
    ELSE LET here == FirstVariation(Head(entries).variations, Head(entries).standard, name)
         IN  IF here # <<>> THEN here ELSE FirstOwner(Tail(entries), name)

\* C12: a file that load_json adds gets the standard username that owns the
\* first variation, in the order of the mapping file, occurring in its name
\* without regard to case, also when two usernames list the same variation;
\* it gets the empty string exactly when no variation occurs in the name
C12_FirstMatchWins ==
    [][(pc = "idle" /\ ~FailedLoad(mapping_file)) =>
         \A i \in 1..Len(loaded_files') :
             i > Len(loaded_files) =>
                 loaded_files'[i].text
                     = FirstOwner(mapping_file.entries, LowerStr(loaded_files'[i].path))]_vars

\* the compatibility table create_charts has put into charts
HasTable ==
    /\ charts # {}
    /\ \A c \in charts : c.musical_compatibility_graph.kind = "table"

TheTable == (CHOOSE c \in charts : TRUE).musical_compatibility_graph

user_pairs == TheTable.user_pairs

\* an album row carries a genre that is set and no placeholder
HasGenre(row) ==
    \/ (row.genre_1 # {} /\ row.genre_1 \cap {"Genre 1", "Genre 2"} = {})
    \/ (row.genre_2 # {} /\ row.genre_2 \cap {"Genre 1", "Genre 2"} = {})

\* the users with a ranked submission of an album that carries a genre
GenreUsers ==
    {df[i].username : i \in {k \in 1..Len(df) :
        /\ df[k].rank # {}
        /\ \E j \in 1..Len(df_processed) :
             df_processed[j].album = df[k].album /\ HasGenre(df_processed[j])}}

\* C13: the compatibility table holds exactly one entry for every two
\* different users who have a genre tuple each, the smaller name first; a
\* user without a genre tuple is in no pair, and without any genre tuple the
\* result is the message 'not enough genre data' with no pair
C13_OneEntryPerPair ==
    charts # {} =>
        /\ (GenreUsers = {}) <=> (TheTable.kind = "not enough genre data")
        /\ TheTable.kind = "not enough genre data" => user_pairs = <<>>
        /\ TheTable.kind = "table" =>
             /\ {<<user_pairs[i].user1, user_pairs[i].user2>> : i \in 1..Len(user_pairs)}
                  = {q \in GenreUsers \X GenreUsers : StrLess(q[1], q[2])}
             /\ \A i, j \in 1..Len(user_pairs) :
                  (user_pairs[i].user1 = user_pairs[j].user1
                   /\ user_pairs[i].user2 = user_pairs[j].user2) => i = j

C13_Witness ==
    /\ HasTable
    /\ Len(user_pairs) = 1
    /\ \E i \in 1..Len(df) : df[i].username \notin GenreUsers

\* C14: combined_score is 0.30 genre + 0.40 weighted + 0.05 absence + 0.25
\* artist when absence_similarity < 0.1 and artist_similarity > 0, and 0.25
\* genre + 0.35 weighted + 0.20 absence + 0.20 artist otherwise, also at an
\* absence_similarity of exactly 0.1 and at an artist_similarity of 0
C14_CombinedScore ==
    HasTable =>
        \A i \in 1..Len(user_pairs) :
            LET p == user_pairs[i]
                absence == (SimScale * p.absence_similarity.num) \div p.absence_similarity.den
                artist == (SimScale * p.artist_similarity.num) \div p.artist_similarity.den
            IN  p.combined_similarity =
                    IF 10 * p.absence_similarity.num < p.absence_similarity.den
                       /\ p.artist_similarity.num > 0
                    THEN 30 * p.genre_similarity + 40 * p.weighted_similarity
                             + 5 * absence + 25 * artist
                    ELSE 25 * p.genre_similarity + 35 * p.weighted_similarity
                             + 20 * absence + 20 * artist

C14_Witness ==
    /\ HasTable
    /\ \E i, j \in 1..Len(user_pairs) :
         /\ 10 * user_pairs[i].absence_similarity.num = user_pairs[i].absence_similarity.den
         /\ user_pairs[i].artist_similarity.num > 0
         /\ user_pairs[j].artist_similarity.num = 0

\* every percentage of the user is 0.0
ZeroNorm(d, user) ==
    \A g \in all_genres(user_genre_pairs(d)) :
        percentage(user_genre_pairs(d), user, g) = 0

\* C15: for every table handed to create_charts, whatever its ranks are,
\* the compatibility table is made and genre_similarity and
\* weighted_similarity of every pair lie between 0 and 1, and are 0 when
\* the vector of one of the two users has norm 0
C15_CosineBounds ==
    [][pc = "charts" =>
         /\ charts' # {}
         /\ \A c \in charts' :
              \A i \in 1..Len(c.musical_compatibility_graph.user_pairs) :
                  LET p == c.musical_compatibility_graph.user_pairs[i]
                  IN  /\ 0 <= p.genre_similarity /\ p.genre_similarity <= SimScale
                      /\ 0 <= p.weighted_similarity /\ p.weighted_similarity <= SimScale
                      /\ (\E u \in {p.user1, p.user2} : ZeroNorm(df_processed, u))
                             => p.genre_similarity = 0]_vars

\* the sets the table was computed from
AvoidsOf(user) == user_avoids(df_processed, user_genre_pairs(df_processed), user)

ArtistsOf(user) == user_artists(user_artist_pairs(df_processed), user)

IsJaccard(f, S, T) ==
    /\ f.den > 0 /\ 0 <= f.num /\ f.num <= f.den
    /\ f.num * Cardinality(S \cup T) = f.den * Cardinality(S \cap T)
    /\ (S = T /\ S # {}) => f.num = f.den
    /\ S \cap T = {} => f.num = 0

\* C16: absence_similarity and artist_similarity of every pair are the size
\* of the intersection over the size of the union of the two avoided-genre
\* sets and of the two artist sets: between 0 and 1, 1 for equal non-empty
\* sets, 0 for disjoint sets; absence_similarity is 0 when a user avoids
\* nothing, artist_similarity when both artist sets are empty
C16_Jaccard ==
    HasTable =>
        \A i \in 1..Len(user_pairs) :
            LET p == user_pairs[i]
            IN  /\ IsJaccard(p.absence_similarity, AvoidsOf(p.user1), AvoidsOf(p.user2))
                /\ IsJaccard(p.artist_similarity, ArtistsOf(p.user1), ArtistsOf(p.user2))
                /\ (AvoidsOf(p.user1) = {} \/ AvoidsOf(p.user2) = {})
                       => p.absence_similarity.num = 0
                /\ (ArtistsOf(p.user1) = {} /\ ArtistsOf(p.user2) = {})
                       => p.artist_similarity.num = 0

C16_Witness ==
    /\ HasTable
    /\ \E i, j \in 1..Len(user_pairs) :
         /\ AvoidsOf(user_pairs[i].user1) # {}
         /\ AvoidsOf(user_pairs[i].user1) = AvoidsOf(user_pairs[i].user2)
         /\ user_pairs[i].absence_similarity.num = user_pairs[i].absence_similarity.den
         /\ user_pairs[i].artist_similarity.num = user_pairs[i].artist_similarity.den
         /\ AvoidsOf(user_pairs[j].user1) = {}
         /\ user_pairs[j].artist_similarity.num = 0

\* C17: combined_score of every pair lies between 0 and 1: the four weights
\* of either branch are not negative and add up to 1
C17_ScoreBounds ==
    HasTable =>
        \A i \in 1..Len(user_pairs) :
            LET p == user_pairs[i]
                w == similarity_weights(p.absence_similarity, p.artist_similarity)
            IN  /\ 0 <= p.combined_similarity
                /\ p.combined_similarity <= 100 * SimScale
                /\ w.genre >= 0 /\ w.weighted >= 0 /\ w.absence >= 0 /\ w.artist >= 0
                /\ w.genre + w.weighted + w.absence + w.artist = 100

C17_Witness ==
    /\ HasTable
    /\ \E i, j \in 1..Len(user_pairs) :
         /\ user_pairs[i].combined_similarity = 100 * SimScale
         /\ user_pairs[j].combined_similarity < 100 * SimScale

ContributingUsers ==
    {df[i].username : i \in {k \in 1..Len(df) : RowsOf(df[k].album) # {}}}

\* C19: the unique_users statistic is the number of distinct users who
\* submitted an album of the year, whoever's submission became the row of
\* an album
C19_UniqueUsers ==
    pc = "charts" =>
        \A s \in stats : s.unique_users = Cardinality(ContributingUsers)

\* the genres of both slots of the table that are set and no placeholder,
\* each with the number of slots it fills
RealGenreCounts ==
    LET pooled == UNION {df_processed[i].genre_1 \cup df_processed[i].genre_2
                         : i \in 1..Len(df_processed)}
    IN  {[genre |-> g, count |-> slot_count(df_processed, g)]
         : g \in pooled \ PLACEHOLDER_GENRES}

\* C20: the genre frequency table, unique_genres and top_genre of
\* calculate_statistics are taken over the values of genre_1 and genre_2
\* without the nulls and the placeholder genres: no placeholder is counted
\* and none is the top genre
C20_NoPlaceholderGenres ==
    pc = "charts" =>
        \A s \in stats :
            /\ s.genre_counts = RealGenreCounts
            /\ s.unique_genres = Cardinality(RealGenreCounts)
            /\ s.top_genre \notin PLACEHOLDER_GENRES
            /\ RealGenreCounts # {} =>
                   \E r \in RealGenreCounts :
                       /\ r.genre = s.top_genre
                       /\ \A x \in RealGenreCounts : r.count >= x.count

\* the submissions, by any user, of the albums of the table that name the
\* country
SubmissionsFrom(country) ==
    {i \in 1..Len(df) : RowsOf(df[i].album) # {} /\ df[i].country = country}

\* C21: top_country is a country with the greatest number of submissions,
\* every user's submission of an album counted
C21_TopCountryBySubmissions ==
    pc = "charts" =>
        \A s \in stats :
            \A i \in 1..Len(df) :
                Cardinality(SubmissionsFrom(s.top_country))
                    >= Cardinality(SubmissionsFrom(df[i].country))

\* the number of genre tuples of the table that give the genre to the user
Tags(user, genre) == count(user_genre_pairs(df_processed), user, genre)

\* the user's tags are two genres, the first m times and the second n times
TagsAre(user, first, m, second, n) ==
    /\ Tags(user, first) = m
    /\ Tags(user, second) = n
    /\ total(user_genre_pairs(df_processed), user) = m + n

\* C22 as stated: for a user with the tags Rock, Rock, Jazz and a user with
\* the tags Rock, Jazz, Jazz the genre_similarity of the pair is 1.0
C22_SimilarityOne ==
    HasTable =>
        \A i \in 1..Len(user_pairs) :
            (TagsAre(user_pairs[i].user1, "Rock", 2, "Jazz", 1)
             /\ TagsAre(user_pairs[i].user2, "Rock", 1, "Jazz", 2))
                => user_pairs[i].genre_similarity = SimScale

\* C22 as the code has it: for these two users the genre_similarity is the
\* cosine of (33.3, 66.7) and (66.7, 33.3), 0.799; it is 1.0 for two users
\* with the same tags, Rock, Rock, Jazz both
C22_SimilarityOfPercentages ==
    HasTable =>
        \A i \in 1..Len(user_pairs) :
            LET p == user_pairs[i]
            IN  /\ (TagsAre(p.user1, "Rock", 2, "Jazz", 1) /\ TagsAre(p.user2, "Rock", 1, "Jazz", 2))
                       => p.genre_similarity = 799
                /\ (TagsAre(p.user1, "Rock", 2, "Jazz", 1) /\ TagsAre(p.user2, "Rock", 2, "Jazz", 1))
                       => p.genre_similarity = SimScale

C22_Witness ==
    /\ HasTable
    /\ \E i \in 1..Len(user_pairs) :
         /\ TagsAre(user_pairs[i].user1, "Rock", 2, "Jazz", 1)
         /\ TagsAre(user_pairs[i].user2, "Rock", 1, "Jazz", 2)
         /\ user_pairs[i].genre_similarity = 799
    /\ Len(df_processed) = 6

\* the columns of a submission that preprocess_data does not aggregate
SubmissionFields ==
    {"artist", "country", "release_date", "genre_1", "genre_2", "cover_image",
     "username", "rank", "points"}

\* C23: the row of an album carries in every column that is not aggregated
\* the value of the first submission of the album in concatenation order,
\* also when later submissions disagree
C23_FirstSubmissionFields ==
    Preprocessed =>
        \A j \in 1..Len(df_processed) :
            \A f \in SubmissionFields :
                df_processed[j][f] = df[FirstSubmission(df_processed[j].album)][f]

\* an album submitted by two users who disagree on its country and genres
C23_Witness ==
    /\ Preprocessed
    /\ \E i, k \in 1..Len(df) :
         /\ i < k
         /\ df[i].album = df[k].album
         /\ df[i].username # df[k].username
         /\ df[i].country # df[k].country
         /\ df[i].genre_2 # df[k].genre_2
         /\ \A j \in RowsOf(df[i].album) : df_processed[j].country = df[i].country

\* the ranks in the contributor lists of the table
TableRanks ==
    UNION {{e.rank : e \in Range(parse_contributors(df_processed[i].contributors))}
           : i \in 1..Len(df_processed)}

\* C24: the weight of every genre tuple is (M - rank + 1) / M for the highest
\* rank M of any contributor of any album of the table: a number above 0,
\* which is 1 for rank 1 and 1 / M for rank M
C24_Weights ==
    pc = "charts" =>
        LET tuples == user_genre_pairs(df_processed)
        IN  \A k \in 1..Len(tuples) :
                LET M == CHOOSE m \in TableRanks : \A r \in TableRanks : r <= m
                    w == weight(tuples, tuples[k])
                IN  /\ w.den # 0
                    /\ w.num * M = (M - tuples[k].rank + 1) * w.den
                    /\ w.num * w.den > 0
                    /\ tuples[k].rank = 1 => w.num = w.den
                    /\ tuples[k].rank = M => w.num * M = w.den

\* the albums of the table that carry the genre in a slot
AlbumsTagged(genre) ==
    {df_processed[i].album : i \in {k \in 1..Len(df_processed) :
        genre \in df_processed[k].genre_1 \cup df_processed[k].genre_2}}

\* the genres, placeholders aside, that two different albums or more carry
GenresOfTwoAlbums ==
    {g \in (UNION {df_processed[i].genre_1 \cup df_processed[i].genre_2
                   : i \in 1..Len(df_processed)}) \ PLACEHOLDER_GENRES :
        Cardinality(AlbumsTagged(g)) >= 2}

\* C25: the valid genres are the genres, null and placeholders aside, that
\* at least 2 different albums of the table carry, an album with the genre
\* in both slots counting once; what a user avoids is the valid set without
\* the genres of the user's tuples
C25_ValidGenres ==
    pc = "charts" =>
        LET tuples == user_genre_pairs(df_processed)
        IN  /\ valid_genres(df_processed) = GenresOfTwoAlbums
            /\ \A u \in all_users(tuples) :
                   user_avoids(df_processed, tuples, u)
                       = GenresOfTwoAlbums \ {tuples[k].genre : k \in {j \in 1..Len(tuples) :
                                                                   tuples[j].user = u}}

\* C26: the rows of the compatibility table are the pairs in descending
\* order of combined_score, pairs with the same score in the order of
\* (user_a, user_b), and the number shown for a pair is its place in that
\* order, counted from 1
C26_PairOrder ==
    HasTable =>
        LET rows == TheTable.rows
        IN  /\ Len(rows) = Len(user_pairs)
            /\ \A k \in 1..Len(rows) :
                   /\ rows[k].number = k
                   /\ rows[k].user1 = user_pairs[k].user1
                   /\ rows[k].user2 = user_pairs[k].user2
                   /\ rows[k].combined = user_pairs[k].combined_similarity
            /\ \A k \in 1..(Len(rows) - 1) :
                   \/ rows[k].combined > rows[k + 1].combined
                   \/ /\ rows[k].combined = rows[k + 1].combined
                      /\ \/ StrLess(rows[k].user1, rows[k + 1].user1)
                         \/ /\ rows[k].user1 = rows[k + 1].user1
                            /\ StrLess(rows[k].user2, rows[k + 1].user2)

\* three pairs: two with the same score, and one with a higher score whose
\* names come last
C26_Witness ==
    /\ HasTable
    /\ Len(TheTable.rows) = 3
    /\ TheTable.rows[1].combined > TheTable.rows[2].combined
    /\ TheTable.rows[2].combined = TheTable.rows[3].combined
    /\ TheTable.rows[1].user1 = <<"B">>

\* C27: after any load_json calls and username edits the Generate button is
\* enabled exactly when a file is loaded and every username field holds
\* something else than blanks
C27_GenerateButton ==
    generate_button <=>
        /\ Len(loaded_files) >= 1
        /\ \A i \in 1..Len(loaded_files) :
               \E k \in 1..Len(loaded_files[i].text) : loaded_files[i].text[k] # " "

\* two files, one of them with a username field that an edit left with a
\* blank only
C27_Witness ==
    /\ Len(loaded_files) = 2
    /\ ~generate_button
    /\ \E i, j \in 1..2 :
         /\ loaded_files[i].text = <<" ">>
         /\ loaded_files[j].text \notin {<<>>, <<" ">>}
    /\ status_label = Status("Enter all usernames to generate the report")

\* the (username, rank) pairs of the submissions of an album that carry a
\* rank, in concatenation order
RankedPairs(album) ==
    [k \in 1..Len(RankedFrom(album, 1)) |->
        [user |-> df[RankedFrom(album, 1)[k]].username,
         rank |-> CHOOSE v \in df[RankedFrom(album, 1)[k]].rank : TRUE]]

\* C28: for every album and every username, also one with ';' or ' (' in
\* it, parsing the contributors string as create_user_compatibility_table
\* does gives the (username, rank) pairs of the album's submissions that
\* have a rank, in the same order
C28_ContributorsRoundTrip ==
    charts # {} =>
        \A j \in 1..Len(df_processed) :
            parse_contributors(df_processed[j].contributors)
                = RankedPairs(df_processed[j].album)

\* the submissions with the names of the users u and v exchanged
Renamed(d, u, v) ==
    [i \in 1..Len(d) |->
        [d[i] EXCEPT !.username = IF @ = u THEN v ELSE IF @ = v THEN u ELSE @]]

\* the compatibility table of the same files under the exchanged names (the
\* table does not read the order of the album rows)
RenamedTable(u, v) ==
    create_user_compatibility_table(
        WithUserCount(filter_year(WithDateColumns(df_unique(Renamed(df, u, v))),
                                  current_year)))

\* C29: the scores are symmetric: with the names of the two users of a pair
\* exchanged, so that each has the other's data, the pair's
\* genre_similarity, weighted_similarity, absence_similarity,
\* artist_similarity, combined score, shared avoided genres and
\* shared_artist_count are the same
C29_Symmetric ==
    HasTable =>
        \A i \in 1..Len(user_pairs) :
            LET p == user_pairs[i]
                t == RenamedTable(p.user1, p.user2)
            IN  /\ t.kind = "table"
                /\ \E k \in 1..Len(t.user_pairs) :
                     LET q == t.user_pairs[k]
                     IN  /\ q.user1 = p.user1 /\ q.user2 = p.user2
                         /\ q.genre_similarity = p.genre_similarity
                         /\ q.weighted_similarity = p.weighted_similarity
                         /\ q.absence_similarity = p.absence_similarity
                         /\ q.artist_similarity = p.artist_similarity
                         /\ q.combined_similarity = p.combined_similarity
                         /\ q.shared_avoids = p.shared_avoids
                         /\ q.shared_artist_count = p.shared_artist_count

\* a pair of users whose data differ: they share an artist, one of them
\* has more artists than the other, and their genre vectors are neither
\* equal nor orthogonal, the weighted ones differing from the plain ones
C29_Witness ==
    /\ HasTable
    /\ \E i \in 1..Len(user_pairs) :
         LET p == user_pairs[i]
             tuples == user_genre_pairs(df_processed)
             artists == user_artist_pairs(df_processed)
         IN  /\ p.shared_artist_count > 0
             /\ Cardinality(user_artists(artists, p.user1))
                  # Cardinality(user_artists(artists, p.user2))
             /\ p.genre_similarity \notin {0, SimScale}
             /\ p.weighted_similarity # p.genre_similarity

\* C30: when year validation succeeds, every album with a submission whose
\* release date parses to the validated year has a row in the table handed
\* to the report, also when the date of its first submission does not parse
C30_NoAlbumDropped ==
    Handed =>
        \A i \in 1..Len(df) :
            (\E t \in df[i].release_date : {t.y} = current_year)
                => RowsOf(df[i].album) # {}

====
